---- MODULE Spec2Model ----
(***************************************************************************)
(* Statistics reduction of the fuse storage layer                          *)
(* (query/src/storages/fuse/statistics/reducers.rs).                       *)
(*                                                                         *)
(* A HashMap is a function whose DOMAIN is its key set; the empty map is   *)
(* the function with the empty domain.  An Option is a sequence of length  *)
(* 0 (None) or 1 (Some(x)), so that None and Some(empty map) differ.  A    *)
(* Vec is a sequence.  DataValue is an integer, DataValue::Null is Null,   *)
(* and DataValue::cmp on the non-null values is the order of integers.     *)
(* The u64 counters are natural numbers: the inputs below keep every sum   *)
(* far below 2^64, so no addition wraps or panics.                         *)
(*                                                                         *)
(* Two more parts of the repository have a specification of their own:     *)
(* TransformAddComputedColumns::try_create (SpecComputed) and the lazy     *)
(* preparation of test data, lazy_prepare_data (SpecPrepare).              *)
(***************************************************************************)
EXTENDS Integers, Sequences, FiniteSets, TLC

\* Longest input slice (of column maps, or of block metas).
MaxLen == 2
\* Most rows in one block.
MaxRows == 1

\* DataValue::Null
Null == 0
\* Column ids of the column maps, column ids and sub-column keys of the
\* blocks, and the non-null values.
ColumnIds == {1, 2}
BlockColumnIds == {1}
SubColumnKeys == {"a.b"}
Values == {1, 2}
SubValues == {1}

None == <<>>
Some(x) == <<x>>
is_some(o) == Len(o) = 1
unwrap(o) == o[1]

is_null(v) == v = Null

Range(s) == {s[i] : i \in DOMAIN s}

\* acc.entry(key).or_insert_with(|| vec![stats]).push(stats)
entry_or_insert_push(acc, key, s) ==
    IF key \in DOMAIN acc
    THEN Append(acc[key], s)
    ELSE Append(<<s>>, s)

\* The grouping fold keeping only the column ids of the first map.
RECURSIVE col_stat_list_first_ids(_)
col_stat_list_first_ids(stats) ==
    IF stats = <<>>
    THEN <<>>
    ELSE LET acc == col_stat_list_first_ids(SubSeq(stats, 1, Len(stats) - 1))
             item == stats[Len(stats)]
         IN [col_id \in (IF Len(stats) = 1 THEN DOMAIN item ELSE DOMAIN acc) |->
                IF col_id \in DOMAIN item
                THEN entry_or_insert_push(acc, col_id, item[col_id])
                ELSE acc[col_id]]

\* The grouping fold of reduce_block_statistics: from a slice of maps to a
\* map from column id to the Vec of the entries of that column.
RECURSIVE col_stat_list(_)
col_stat_list(stats) ==
    IF stats = <<>>
    THEN <<>>
    ELSE LET acc == col_stat_list(SubSeq(stats, 1, Len(stats) - 1))
             item == stats[Len(stats)]
         IN [col_id \in (DOMAIN acc) \cup (DOMAIN item) |->
                IF col_id \in DOMAIN item
                THEN entry_or_insert_push(acc, col_id, item[col_id])
                ELSE acc[col_id]]

\* The loop over one column's Vec: the pushed min and max values and the
\* two running sums.
RECURSIVE accumulate(_)
accumulate(stats) ==
    IF stats = <<>>
    THEN [min_stats |-> <<>>, max_stats |-> <<>>, null_count |-> 0, in_memory_size |-> 0]
    ELSE LET a == accumulate(SubSeq(stats, 1, Len(stats) - 1))
             col_stats == stats[Len(stats)]
         IN [min_stats |-> Append(a.min_stats, col_stats.min),
             max_stats |-> Append(a.max_stats, col_stats.max),
             null_count |-> a.null_count + col_stats.null_count,
             in_memory_size |-> a.in_memory_size + col_stats.in_memory_size]

filter_not_null(vec) == SelectSeq(vec, LAMBDA s : ~is_null(s))

\* The min selection without the null filter.
reduce_min_unfiltered(min_stats) ==
    IF min_stats = <<>> THEN Null
    ELSE CHOOSE x \in Range(min_stats) : \A y \in Range(min_stats) : x <= y

\* min_stats.iter().filter(|s| !s.is_null()).min_by(cmp).cloned().unwrap_or(Null)
reduce_min(min_stats) ==
    LET f == filter_not_null(min_stats)
    IN IF f = <<>> THEN Null
       ELSE CHOOSE x \in Range(f) : \A y \in Range(f) : x <= y

\* max_stats.iter().filter(|s| !s.is_null()).max_by(cmp).cloned().unwrap_or(Null)
reduce_max(max_stats) ==
    LET f == filter_not_null(max_stats)
    IN IF f = <<>> THEN Null
       ELSE CHOOSE x \in Range(f) : \A y \in Range(f) : y <= x

reduce_block_statistics(stats) ==
    LET l == col_stat_list(stats)
    IN [id \in DOMAIN l |->
           LET a == accumulate(l[id])
           IN [min |-> reduce_min(a.min_stats),
               max |-> reduce_max(a.max_stats),
               null_count |-> a.null_count,
               in_memory_size |-> a.in_memory_size]]

\* The grouping fold of reduce_block_sub_statistics.
sub_entry_or_insert_push(acc, col_key, s) ==
    IF col_key \in DOMAIN acc
    THEN Append(acc[col_key], s)
    ELSE Append(<<s>>, s)

RECURSIVE sub_col_stat_list(_)
sub_col_stat_list(sub_stats) ==
    IF sub_stats = <<>>
    THEN <<>>
    ELSE LET acc == sub_col_stat_list(SubSeq(sub_stats, 1, Len(sub_stats) - 1))
             item == sub_stats[Len(sub_stats)]
         IN [col_key \in (DOMAIN acc) \cup (DOMAIN item) |->
                IF col_key \in DOMAIN item
                THEN sub_entry_or_insert_push(acc, col_key, item[col_key])
                ELSE acc[col_key]]

RECURSIVE sub_accumulate(_)
sub_accumulate(sub_stats) ==
    IF sub_stats = <<>>
    THEN [min_stats |-> <<>>, max_stats |-> <<>>, unset_bits |-> 0, in_memory_size |-> 0]
    ELSE LET a == sub_accumulate(SubSeq(sub_stats, 1, Len(sub_stats) - 1))
             col_stats == sub_stats[Len(sub_stats)]
         IN [min_stats |-> Append(a.min_stats, col_stats.min),
             max_stats |-> Append(a.max_stats, col_stats.max),
             unset_bits |-> a.unset_bits + col_stats.unset_bits,
             in_memory_size |-> a.in_memory_size + col_stats.in_memory_size]

\* The min selection of the sub-column reducer without the null filter.
sub_reduce_min_unfiltered(min_stats) ==
    IF min_stats = <<>> THEN Null
    ELSE CHOOSE x \in Range(min_stats) : \A y \in Range(min_stats) : x <= y

sub_reduce_min(min_stats) ==
    LET f == filter_not_null(min_stats)
    IN IF f = <<>> THEN Null
       ELSE CHOOSE x \in Range(f) : \A y \in Range(f) : x <= y

sub_reduce_max(max_stats) ==
    LET f == filter_not_null(max_stats)
    IN IF f = <<>> THEN Null
       ELSE CHOOSE x \in Range(f) : \A y \in Range(f) : y <= x

reduce_block_sub_statistics(sub_stats) ==
    LET l == sub_col_stat_list(sub_stats)
    IN [col_key \in DOMAIN l |->
           LET a == sub_accumulate(l[col_key])
           IN [min |-> sub_reduce_min(a.min_stats),
               max |-> sub_reduce_max(a.max_stats),
               unset_bits |-> a.unset_bits,
               in_memory_size |-> a.in_memory_size]]

\* The match that reduces the present sides instead of passing one through.
merge_sub_col_stats_always_reduce(l, r) ==
    IF ~is_some(l) /\ ~is_some(r) THEN None
    ELSE IF is_some(l) /\ ~is_some(r) THEN Some(reduce_block_sub_statistics(<<unwrap(l)>>))
    ELSE IF ~is_some(l) /\ is_some(r) THEN Some(reduce_block_sub_statistics(<<unwrap(r)>>))
    ELSE Some(reduce_block_sub_statistics(<<unwrap(l), unwrap(r)>>))

\* The match on (l.sub_col_stats, r.sub_col_stats) of merge_statistics.
merge_sub_col_stats(l, r) ==
    IF ~is_some(l) /\ ~is_some(r) THEN None
    ELSE IF is_some(l) /\ ~is_some(r) THEN Some(unwrap(l))
    ELSE IF ~is_some(l) /\ is_some(r) THEN Some(unwrap(r))
    ELSE Some(reduce_block_sub_statistics(<<unwrap(l), unwrap(r)>>))

\* The merge that adds r's uncompressed size to l's compressed size.
merge_statistics_mixed_sizes(l, r) ==
    [row_count |-> l.row_count + r.row_count,
     block_count |-> l.block_count + r.block_count,
     uncompressed_byte_size |-> l.uncompressed_byte_size + r.uncompressed_byte_size,
     compressed_byte_size |-> l.compressed_byte_size + r.uncompressed_byte_size,
     col_stats |-> reduce_block_statistics(<<l.col_stats, r.col_stats>>),
     sub_col_stats |-> merge_sub_col_stats(l.sub_col_stats, r.sub_col_stats)]

merge_statistics(l, r) ==
    [row_count |-> l.row_count + r.row_count,
     block_count |-> l.block_count + r.block_count,
     uncompressed_byte_size |-> l.uncompressed_byte_size + r.uncompressed_byte_size,
     compressed_byte_size |-> l.compressed_byte_size + r.compressed_byte_size,
     col_stats |-> reduce_block_statistics(<<l.col_stats, r.col_stats>>),
     sub_col_stats |-> merge_sub_col_stats(l.sub_col_stats, r.sub_col_stats)]

\* Statistics::default()
default_statistics ==
    [row_count |-> 0, block_count |-> 0, uncompressed_byte_size |-> 0,
     compressed_byte_size |-> 0, col_stats |-> <<>>, sub_col_stats |-> None]

\* The fold seeded with a Statistics whose sub_col_stats is a present empty
\* map.
RECURSIVE reduce_statistics_seeded(_)
reduce_statistics_seeded(s) ==
    IF s = <<>>
    THEN [default_statistics EXCEPT !.sub_col_stats = Some(<<>>)]
    ELSE merge_statistics(reduce_statistics_seeded(SubSeq(s, 1, Len(s) - 1)), s[Len(s)])

RECURSIVE reduce_statistics(_)
reduce_statistics(s) ==
    IF s = <<>>
    THEN default_statistics
    ELSE merge_statistics(reduce_statistics(SubSeq(s, 1, Len(s) - 1)), s[Len(s)])

\* The counters with block_size and file_size exchanged.
RECURSIVE sum_block_metas_swapped(_)
sum_block_metas_swapped(metas) ==
    IF metas = <<>>
    THEN [row_count |-> 0, block_count |-> 0, uncompressed_byte_size |-> 0,
          compressed_byte_size |-> 0]
    ELSE LET a == sum_block_metas_swapped(SubSeq(metas, 1, Len(metas) - 1))
             b == metas[Len(metas)]
         IN [row_count |-> a.row_count + b.row_count,
             block_count |-> a.block_count + 1,
             uncompressed_byte_size |-> a.uncompressed_byte_size + b.file_size,
             compressed_byte_size |-> a.compressed_byte_size + b.block_size]

\* The for_each of reduce_block_metas: the four running counters.
RECURSIVE sum_block_metas(_)
sum_block_metas(metas) ==
    IF metas = <<>>
    THEN [row_count |-> 0, block_count |-> 0, uncompressed_byte_size |-> 0,
          compressed_byte_size |-> 0]
    ELSE LET a == sum_block_metas(SubSeq(metas, 1, Len(metas) - 1))
             b == metas[Len(metas)]
         IN [row_count |-> a.row_count + b.row_count,
             block_count |-> a.block_count + 1,
             uncompressed_byte_size |-> a.uncompressed_byte_size + b.block_size,
             compressed_byte_size |-> a.compressed_byte_size + b.file_size]

\* The collection of the present maps that also skips the empty ones.
RECURSIVE present_sub_stats_non_empty(_)
present_sub_stats_non_empty(metas) ==
    IF metas = <<>>
    THEN <<>>
    ELSE LET rest == present_sub_stats_non_empty(SubSeq(metas, 1, Len(metas) - 1))
             s == metas[Len(metas)].sub_col_stats
         IN IF is_some(s) /\ DOMAIN unwrap(s) # {} THEN Append(rest, unwrap(s)) ELSE rest

\* block_metas.iter().map(sub_col_stats).filter(is_some).map(unwrap).collect()
RECURSIVE present_sub_stats(_)
present_sub_stats(metas) ==
    IF metas = <<>>
    THEN <<>>
    ELSE LET rest == present_sub_stats(SubSeq(metas, 1, Len(metas) - 1))
             s == metas[Len(metas)].sub_col_stats
         IN IF is_some(s) THEN Append(rest, unwrap(s)) ELSE rest

reduce_block_metas(metas) ==
    LET c == sum_block_metas(metas)
        col_maps == [i \in DOMAIN metas |-> metas[i].col_stats]
        sub_stats == present_sub_stats(metas)
    IN [row_count |-> c.row_count,
        block_count |-> c.block_count,
        uncompressed_byte_size |-> c.uncompressed_byte_size,
        compressed_byte_size |-> c.compressed_byte_size,
        col_stats |-> reduce_block_statistics(col_maps),
        sub_col_stats |-> IF sub_stats = <<>>
                          THEN None
                          ELSE Some(reduce_block_sub_statistics(sub_stats))]

(***************************************************************************)
(* The Result each reducer returns: "Ok", or "Err" when an error is        *)
(* propagated by a `?`.  The value inside an Ok is what the operators      *)
(* above compute.                                                          *)
(***************************************************************************)

\* The try_fold closure that fails on a column without a non-null min.
reduce_column_result_strict(stats) ==
    IF filter_not_null(accumulate(stats).min_stats) = <<>> THEN "Err" ELSE "Ok"

\* The closure of the try_fold, run on one column's Vec: it inserts the
\* entry and ends in Ok(acc), also when the filtered min and max are empty
\* (unwrap_or(DataValue::Null)).
reduce_column_result(stats) == "Ok"

\* try_fold: the first Err of the closure, Ok when there is none (and when
\* there is no column at all).
try_fold_result(l) ==
    IF \E id \in DOMAIN l : reduce_column_result(l[id]) # "Ok" THEN "Err" ELSE "Ok"

reduce_block_statistics_result(stats) == try_fold_result(col_stat_list(stats))

\* The closure of the sub-column try_fold; unset_bits plays no part in it.
sub_reduce_column_result(sub_stats) ==
    reduce_column_result([i \in DOMAIN sub_stats |->
                             [min |-> sub_stats[i].min, max |-> sub_stats[i].max,
                              null_count |-> sub_stats[i].unset_bits,
                              in_memory_size |-> sub_stats[i].in_memory_size]])

sub_try_fold_result(l) ==
    IF \E col_key \in DOMAIN l : sub_reduce_column_result(l[col_key]) # "Ok" THEN "Err" ELSE "Ok"

reduce_block_sub_statistics_result(sub_stats) ==
    sub_try_fold_result(sub_col_stat_list(sub_stats))

\* merge_statistics: the two `?`, on the sub-column reduction of two present
\* maps and on the column reduction; Ok(s) otherwise.
merge_statistics_result(l, r) ==
    IF /\ is_some(l.sub_col_stats)
       /\ is_some(r.sub_col_stats)
       /\ reduce_block_sub_statistics_result(<<unwrap(l.sub_col_stats), unwrap(r.sub_col_stats)>>) # "Ok"
    THEN "Err"
    ELSE IF reduce_block_statistics_result(<<l.col_stats, r.col_stats>>) # "Ok"
    THEN "Err"
    ELSE "Ok"

\* reduce_statistics: the `?` on every merge of the loop; Ok(statistics)
\* after the last item, and at once for the empty slice.
RECURSIVE reduce_statistics_result(_)
reduce_statistics_result(s) ==
    IF s = <<>>
    THEN "Ok"
    ELSE LET front == SubSeq(s, 1, Len(s) - 1)
         IN IF reduce_statistics_result(front) # "Ok"
            THEN "Err"
            ELSE merge_statistics_result(reduce_statistics(front), s[Len(s)])

\* reduce_block_metas: the `?` on the column reduction and, when some block
\* has sub_col_stats, on the sub-column reduction.
reduce_block_metas_result(metas) ==
    LET col_maps == [i \in DOMAIN metas |-> metas[i].col_stats]
        sub_stats == present_sub_stats(metas)
    IN IF reduce_block_statistics_result(col_maps) # "Ok"
       THEN "Err"
       ELSE IF sub_stats # <<>> /\ reduce_block_sub_statistics_result(sub_stats) # "Ok"
       THEN "Err"
       ELSE "Ok"

(***************************************************************************)
(* Inputs.  A column of a block of `rows` rows has null_count in 0..rows;  *)
(* its min and max are null exactly when all its rows are null; otherwise  *)
(* min <= max, and min = max when one row is not null.  Its in_memory_size *)
(* is rows times the width of the column.                                  *)
(***************************************************************************)
MinMax(vals, rows, nulls) ==
    IF nulls = rows
    THEN {<<Null, Null>>}
    ELSE {m \in vals \X vals : m[1] <= m[2] /\ (rows - nulls = 1 => m[1] = m[2])}

ColumnStatistics(col_id, rows) ==
    UNION {{[min |-> m[1], max |-> m[2], null_count |-> n,
             in_memory_size |-> rows * (col_id + 1)] : m \in MinMax(Values, rows, n)} :
           n \in 0..rows}

SubColumnStatistics(rows) ==
    UNION {{[min |-> m[1], max |-> m[2], unset_bits |-> n,
             in_memory_size |-> rows] : m \in MinMax(SubValues, rows, n)} :
           n \in 0..rows}

\* HashMap<ColumnId, ColumnStatistics> of a block of `rows` rows
StatisticsOfColumns(ids, rows) ==
    UNION {{f \in [ks -> UNION {ColumnStatistics(k, rows) : k \in ks}] :
               \A k \in ks : f[k] \in ColumnStatistics(k, rows)} :
           ks \in SUBSET ids}

\* HashMap<String, ColumnStatistics> of a block of `rows` rows
StatisticsOfSubColumns(rows) ==
    UNION {[ks -> SubColumnStatistics(rows)] : ks \in SUBSET SubColumnKeys}

BlockMeta ==
    UNION {{[row_count |-> rows, block_size |-> 3 * rows, file_size |-> 2 * rows,
             col_stats |-> c, sub_col_stats |-> s] :
               c \in StatisticsOfColumns(BlockColumnIds, rows),
               s \in {None} \cup {Some(m) : m \in StatisticsOfSubColumns(rows)}} :
           rows \in 1..MaxRows}

SeqUpTo(S, n) == UNION {[1..k -> S] : k \in 0..n}

(***************************************************************************)
(* TransformAddComputedColumns::try_create                                 *)
(* (query/service/src/pipelines/processors/transforms/                     *)
(* transform_add_computed_columns.rs).  A schema is the sequence of its    *)
(* fields; a field has a name, a data type and an optional computed        *)
(* expression, stored or virtual.  A Result is <<"Ok", value>> or          *)
(* <<"Err", error code>>.  parse_computed_exprs and get_function_context   *)
(* are calls into other crates: each returns Ok, or the error the context  *)
(* ctx holds for it.                                                       *)
(***************************************************************************)
Ok(v) == <<"Ok", v>>
Err(e) == <<"Err", e>>
is_ok(res) == res[1] = "Ok"

is_nullable(data_type) == data_type \in {"Nullable(Int32)"}

has_field(schema, name) == \E i \in DOMAIN schema : schema[i].name = name

\* The first field of that name, and its position counted from 0.
field_with_name(schema, name) ==
    schema[CHOOSE i \in DOMAIN schema :
               /\ schema[i].name = name
               /\ \A j \in 1..(i - 1) : schema[j].name # name]
index_of(schema, name) ==
    (CHOOSE i \in DOMAIN schema :
         /\ schema[i].name = name
         /\ \A j \in 1..(i - 1) : schema[j].name # name) - 1

\* parse_computed_exprs(ctx, input_schema, stored_expr): the Vec of the one
\* parsed expression, or the error of the parser or binder.
parse_computed_exprs(c, schema, stored_expr) ==
    IF is_some(c.parse_error)
    THEN Err(unwrap(c.parse_error))
    ELSE Ok(<<[kind |-> "Parsed", text |-> stored_expr.text,
               data_type |-> stored_expr.data_type]>>)

\* ctx.get_function_context()
get_function_context(c) ==
    IF is_some(c.function_context_error)
    THEN Err(unwrap(c.function_context_error))
    ELSE Ok("func_ctx")

\* The body of the loop with every computed expression taken as stored.
field_expr_any_computed(c, schema, f) ==
    IF ~has_field(schema, f.name)
    THEN IF is_some(f.computed_expr)
         THEN LET parsed == parse_computed_exprs(c, schema, unwrap(f.computed_expr))
              IN IF ~is_ok(parsed)
                 THEN parsed
                 ELSE LET expr == parsed[2][1]
                      IN IF expr.data_type # f.data_type
                         THEN Ok([kind |-> "Cast", is_try |-> is_nullable(f.data_type),
                                  expr |-> expr, dest_type |-> f.data_type])
                         ELSE Ok(expr)
         ELSE Err("Internal")
    ELSE LET field == field_with_name(schema, f.name)
         IN Ok([kind |-> "ColumnRef", id |-> index_of(schema, f.name),
                data_type |-> field.data_type, display_name |-> field.name])

\* The body of the loop over the output fields: the expression of field f,
\* or the error that ends try_create.
field_expr(c, schema, f) ==
    IF ~has_field(schema, f.name)
    THEN IF is_some(f.computed_expr) /\ unwrap(f.computed_expr).kind = "Stored"
         THEN LET parsed == parse_computed_exprs(c, schema, unwrap(f.computed_expr))
              IN IF ~is_ok(parsed)
                 THEN parsed
                 ELSE LET expr == parsed[2][1]
                      IN IF expr.data_type # f.data_type
                         THEN Ok([kind |-> "Cast", is_try |-> is_nullable(f.data_type),
                                  expr |-> expr, dest_type |-> f.data_type])
                         ELSE Ok(expr)
         ELSE Err("Internal")
    ELSE LET field == field_with_name(schema, f.name)
         IN Ok([kind |-> "ColumnRef", id |-> index_of(schema, f.name),
                data_type |-> field.data_type, display_name |-> field.name])

\* The loop: exprs after the first n output fields, or the first error.
RECURSIVE build_exprs(_, _, _, _)
build_exprs(c, schema, fields, n) ==
    IF n = 0
    THEN Ok(<<>>)
    ELSE LET exprs == build_exprs(c, schema, fields, n - 1)
         IN IF ~is_ok(exprs)
            THEN exprs
            ELSE LET expr == field_expr(c, schema, fields[n])
                 IN IF ~is_ok(expr) THEN expr ELSE Ok(Append(exprs[2], expr[2]))

try_create(c, in_schema, out_schema) ==
    LET exprs == build_exprs(c, in_schema, out_schema, Len(out_schema))
    IN IF ~is_ok(exprs)
       THEN exprs
       ELSE LET func_ctx == get_function_context(c)
            IN IF ~is_ok(func_ctx)
               THEN func_ctx
               ELSE Ok([expression_transform |->
                            [ctx |-> func_ctx[2],
                             operators |-> <<[kind |-> "Map", exprs |-> exprs[2]]>>],
                        input_len |-> Len(in_schema)])

\* The computed expression the model's computed fields carry; its parse has
\* the type Int32.
StoredExpr == [text |-> "a + 1", data_type |-> "Int32"]

Field(name, data_type, computed_expr) ==
    [name |-> name, data_type |-> data_type, computed_expr |-> computed_expr]

InputSchemas ==
    {<<>>,
     <<Field("a", "Int32", None)>>,
     <<Field("a", "Int32", None), Field("b", "String", None)>>,
     <<Field("b", "String", None), Field("a", "Int32", None)>>}

OutputFields ==
    {Field("a", "Int32", None),
     Field("b", "String", None),
     Field("a", "Int32", Some([kind |-> "Stored"] @@ StoredExpr)),
     Field("c", "Int32", Some([kind |-> "Stored"] @@ StoredExpr)),
     Field("c", "Nullable(Int32)", Some([kind |-> "Stored"] @@ StoredExpr)),
     Field("c", "Int32", Some([kind |-> "Virtual"] @@ StoredExpr)),
     Field("d", "Int32", None)}

\* The query contexts: what the two calls through ctx return.
QueryContexts ==
    [parse_error : {None, Some("SemanticError")},
     function_context_error : {None, Some("BadArguments")}]

(***************************************************************************)
(* State.  A run reduces either a slice of column maps (stats) or a slice  *)
(* of block metas (block_metas); op names the reduction applied, and       *)
(* col_stats or snapshot holds what it returned.  l and r are the operands *)
(* of merge_statistics; split is the length of the first batch of a        *)
(* two-batch reduction; segments is the slice reduce_statistics folded.    *)
(* sub_col_stats holds what reduce_block_sub_statistics returned for the   *)
(* maps of stats keyed by string.  result is the Result the reduction      *)
(* returned; on Err nothing of its value is kept.                          *)
(*                                                                         *)
(* try_create is called with the context ctx and the schemas input_schema  *)
(* and output_schema; created is None before the call and Some of its      *)
(* Result after it.                                                        *)
(*                                                                         *)
(* Each caller t runs one lazy_prepare_data(&lazy_dirs[t]); pending[t] are *)
(* the dirs its loop has not visited yet, current[t] the dir it is at and  *)
(* pc[t] its position.  once is the state of the five std::sync::Once      *)
(* statics and script_runs counts the runs of each preparation script.     *)
(***************************************************************************)
VARIABLES stats, col_stats, sub_col_stats, block_metas, segments, l, r, split, snapshot, op,
          result,
          ctx, input_schema, output_schema, created,
          lazy_dirs, pending, current, pc, once, script_runs

reducerVars == <<stats, col_stats, sub_col_stats, block_metas, segments, l, r, split, snapshot,
                 op, result>>
transformVars == <<ctx, input_schema, output_schema, created>>
prepareVars == <<lazy_dirs, pending, current, pc, once, script_runs>>

vars == <<reducerVars, transformVars, prepareVars>>

\* The callers of lazy_prepare_data, the LazyDir enum, the Once statics and
\* the preparation scripts (sqllogictests/src/util.rs).
Callers == {1, 2}
LazyDir == {"Tpch", "Tpcds", "Stage", "UdfNative", "Spill", "Dictionaries"}
OnceStatics == {"PREPARE_TPCH", "PREPARE_TPCDS", "PREPARE_STAGE", "PREPARE_SPILL", "PREPARE_WASM"}
Scripts == {"prepare_tpch_data.sh", "prepare_tpcds_data.sh", "prepare_stage.sh",
            "prepare_spill_data.sh"}

\* No reduction is under way: empty inputs, nothing returned.
NoReduction ==
    /\ stats = <<>>
    /\ block_metas = <<>>
    /\ col_stats = <<>>
    /\ sub_col_stats = <<>>
    /\ segments = <<>>
    /\ l = default_statistics
    /\ r = default_statistics
    /\ split = 0
    /\ snapshot = default_statistics
    /\ op = "none"
    /\ result = "none"

\* try_create is not called.
NoTransform ==
    /\ ctx = [parse_error |-> None, function_context_error |-> None]
    /\ input_schema = <<>>
    /\ output_schema = <<>>
    /\ created = None

\* lazy_prepare_data is not called: there is no caller, and no Once has run.
NoPreparation ==
    /\ lazy_dirs = <<>>
    /\ pending = <<>>
    /\ current = <<>>
    /\ pc = <<>>
    /\ once = [o \in OnceStatics |-> "Incomplete"]
    /\ script_runs = [s \in Scripts |-> 0]

Init ==
    /\ \E k \in 0..MaxLen :
          \/ /\ stats \in [1..k -> UNION {StatisticsOfColumns(ColumnIds, rows) : rows \in 1..MaxRows}]
             /\ block_metas = <<>>
          \/ /\ stats = <<>>
             /\ block_metas \in [1..k -> BlockMeta]
    /\ col_stats = <<>>
    /\ sub_col_stats = <<>>
    /\ segments = <<>>
    /\ l = default_statistics
    /\ r = default_statistics
    /\ split = 0
    /\ snapshot = default_statistics
    /\ op = "none"
    /\ result = "none"
    /\ NoTransform
    /\ NoPreparation

\* reduce_block_statistics(&stats)
ReduceBlockStatistics ==
    /\ op = "none"
    /\ op' = "reduce_block_statistics"
    /\ result' = reduce_block_statistics_result(stats)
    /\ col_stats' = IF result' = "Ok" THEN reduce_block_statistics(stats) ELSE col_stats
    /\ UNCHANGED <<stats, sub_col_stats, block_metas, segments, l, r, split, snapshot>>
    /\ UNCHANGED <<transformVars, prepareVars>>

\* A column map keyed by string: column id n becomes the key "n", and
\* null_count becomes unset_bits.
as_sub_columns(m) ==
    [col_key \in {ToString(id) : id \in DOMAIN m} |->
        LET c == m[CHOOSE id \in DOMAIN m : ToString(id) = col_key]
        IN [min |-> c.min, max |-> c.max, unset_bits |-> c.null_count,
            in_memory_size |-> c.in_memory_size]]

\* reduce_block_sub_statistics(&sub_stats), sub_stats being the maps of stats
\* keyed by string
ReduceBlockSubStatistics ==
    /\ op = "none"
    /\ ~(stats = <<>> /\ block_metas # <<>>)
    /\ op' = "reduce_block_sub_statistics"
    /\ LET sub_stats == [i \in DOMAIN stats |-> as_sub_columns(stats[i])]
       IN /\ result' = reduce_block_sub_statistics_result(sub_stats)
          /\ sub_col_stats' = IF result' = "Ok"
                              THEN reduce_block_sub_statistics(sub_stats)
                              ELSE sub_col_stats
    /\ UNCHANGED <<stats, col_stats, block_metas, segments, l, r, split, snapshot>>
    /\ UNCHANGED <<transformVars, prepareVars>>

\* The segment of block i: reduce_block_metas of that one block; segment 0
\* is Statistics::default().
segment(i) ==
    IF i = 0 THEN default_statistics ELSE reduce_block_metas(<<block_metas[i]>>)

\* reduce_block_metas(&block_metas)
ReduceBlockMetas ==
    /\ op = "none"
    /\ op' = "reduce_block_metas"
    /\ result' = reduce_block_metas_result(block_metas)
    /\ snapshot' = IF result' = "Ok" THEN reduce_block_metas(block_metas) ELSE snapshot
    /\ UNCHANGED <<stats, col_stats, sub_col_stats, block_metas, segments, l, r, split>>
    /\ UNCHANGED <<transformVars, prepareVars>>

\* merge_statistics(&l, &r) of two segments
MergeStatistics ==
    /\ op = "none"
    /\ \E i, j \in 0..Len(block_metas) :
          /\ i < j
          /\ l' = segment(i)
          /\ r' = segment(j)
    /\ op' = "merge_statistics"
    /\ result' = merge_statistics_result(l', r')
    /\ snapshot' = IF result' = "Ok" THEN merge_statistics(l', r') ELSE snapshot
    /\ UNCHANGED <<stats, col_stats, sub_col_stats, block_metas, segments, split>>
    /\ UNCHANGED <<transformVars, prepareVars>>

\* reduce_statistics(&segments) of the segments of all blocks in order, with
\* or without a leading Statistics::default(); of the empty slice when there
\* is no block
ReduceStatistics ==
    /\ op = "none"
    /\ stats = <<>>
    /\ \E k \in 0..1 :
          segments' = [i \in 1..(Len(block_metas) + 1 - k) |-> segment(i - 1 + k)]
    /\ op' = "reduce_statistics"
    /\ result' = reduce_statistics_result(segments')
    /\ snapshot' = IF result' = "Ok" THEN reduce_statistics(segments') ELSE snapshot
    /\ UNCHANGED <<stats, col_stats, sub_col_stats, block_metas, l, r, split>>
    /\ UNCHANGED <<transformVars, prepareVars>>

\* reduce_block_metas of two batches, then merge_statistics of the two results
ReduceThenMerge ==
    /\ op = "none"
    /\ block_metas # <<>>
    /\ \E k \in 0..Len(block_metas) :
          /\ split' = k
          /\ l' = reduce_block_metas(SubSeq(block_metas, 1, k))
          /\ r' = reduce_block_metas(SubSeq(block_metas, k + 1, Len(block_metas)))
    /\ op' = "reduce_then_merge"
    /\ result' = IF \/ reduce_block_metas_result(SubSeq(block_metas, 1, split')) # "Ok"
                     \/ reduce_block_metas_result(SubSeq(block_metas, split' + 1, Len(block_metas))) # "Ok"
                  THEN "Err"
                  ELSE merge_statistics_result(l', r')
    /\ snapshot' = IF result' = "Ok" THEN merge_statistics(l', r') ELSE snapshot
    /\ UNCHANGED <<stats, col_stats, sub_col_stats, block_metas, segments>>
    /\ UNCHANGED <<transformVars, prepareVars>>

Next ==
    \/ ReduceBlockStatistics
    \/ ReduceBlockSubStatistics
    \/ ReduceBlockMetas
    \/ MergeStatistics
    \/ ReduceStatistics
    \/ ReduceThenMerge

Spec == Init /\ [][Next]_vars

(***************************************************************************)
(* try_create on every context, input schema and output schema of at most  *)
(* MaxLen fields.                                                          *)
(***************************************************************************)
InitComputed ==
    /\ ctx \in QueryContexts
    /\ input_schema \in InputSchemas
    /\ output_schema \in SeqUpTo(OutputFields, MaxLen)
    /\ created = None
    /\ NoReduction
    /\ NoPreparation

\* TransformAddComputedColumns::try_create(ctx, input, output, input_schema,
\* output_schema)
TryCreate ==
    /\ created = None
    /\ created' = Some(try_create(ctx, input_schema, output_schema))
    /\ UNCHANGED <<ctx, input_schema, output_schema>>
    /\ UNCHANGED <<reducerVars, prepareVars>>

NextComputed == TryCreate

SpecComputed == InitComputed /\ [][NextComputed]_vars

(***************************************************************************)
(* lazy_prepare_data called by every caller, in any interleaving, each     *)
(* with a set of at most MaxLen lazy dirs.  A HashSet is iterated in an    *)
(* order the caller does not choose: the loop visits any pending dir.      *)
(* Once::call_once runs the closure when the Once is Incomplete, returns   *)
(* at once when it is Complete, blocks while another caller runs the       *)
(* closure, and panics when the closure panicked (the Once is poisoned).   *)
(***************************************************************************)

\* The Once and the script of the match arm of a lazy dir; Dictionaries has
\* no arm of its own (`_ => {}`).
once_of(lazy_dir) ==
    CASE lazy_dir = "Tpch" -> "PREPARE_TPCH"
      [] lazy_dir = "Tpcds" -> "PREPARE_TPCDS"
      [] lazy_dir = "Stage" -> "PREPARE_STAGE"
      [] lazy_dir = "UdfNative" -> "PREPARE_WASM"
      [] lazy_dir = "Spill" -> "PREPARE_SPILL"

script_of(lazy_dir) ==
    CASE lazy_dir = "Tpch" -> "prepare_tpch_data.sh"
      [] lazy_dir = "Tpcds" -> "prepare_tpcds_data.sh"
      [] lazy_dir = "Stage" -> "prepare_stage.sh"
      [] lazy_dir = "UdfNative" -> "prepare_stage.sh"
      [] lazy_dir = "Spill" -> "prepare_spill_data.sh"

has_arm(lazy_dir) == lazy_dir \in {"Tpch", "Tpcds", "Stage", "UdfNative", "Spill"}

InitPrepare ==
    /\ lazy_dirs \in [Callers -> {dirs \in SUBSET LazyDir : Cardinality(dirs) <= MaxLen}]
    /\ pending = lazy_dirs
    /\ current = [t \in Callers |-> "none"]
    /\ pc = [t \in Callers |-> "loop"]
    /\ once = [o \in OnceStatics |-> "Incomplete"]
    /\ script_runs = [s \in Scripts |-> 0]
    /\ NoReduction
    /\ NoTransform

\* The loop reaches a dir that needs nothing: the `_` arm, or call_once on a
\* Once that is Complete.
Skip(t) ==
    /\ pc[t] = "loop"
    /\ \E lazy_dir \in pending[t] :
          /\ IF has_arm(lazy_dir) THEN once[once_of(lazy_dir)] = "Complete" ELSE TRUE
          /\ pending' = [pending EXCEPT ![t] = @ \ {lazy_dir}]
    /\ UNCHANGED <<lazy_dirs, current, pc, once, script_runs>>
    /\ UNCHANGED <<reducerVars, transformVars>>

\* call_once on an Incomplete Once: this caller is the one to run the closure.
CallOnce(t) ==
    /\ pc[t] = "loop"
    /\ \E lazy_dir \in pending[t] :
          /\ has_arm(lazy_dir)
          /\ once[once_of(lazy_dir)] = "Incomplete"
          /\ once' = [once EXCEPT ![once_of(lazy_dir)] = "Running"]
          /\ current' = [current EXCEPT ![t] = lazy_dir]
          /\ pending' = [pending EXCEPT ![t] = @ \ {lazy_dir}]
    /\ pc' = [pc EXCEPT ![t] = "closure"]
    /\ UNCHANGED <<lazy_dirs, script_runs>>
    /\ UNCHANGED <<reducerVars, transformVars>>

\* The closure: run_script(name).unwrap().  The script runs and succeeds
\* (the Once completes), runs and fails, or bash cannot be started; the last
\* two panic inside call_once and poison the Once.
RunScript(t) ==
    /\ pc[t] = "closure"
    /\ \E outcome \in {"success", "failed", "not_started"} :
          /\ script_runs' = IF outcome = "not_started"
                            THEN script_runs
                            ELSE [script_runs EXCEPT ![script_of(current[t])] = @ + 1]
          /\ once' = [once EXCEPT ![once_of(current[t])] =
                         IF outcome = "success" THEN "Complete" ELSE "Poisoned"]
          /\ pc' = [pc EXCEPT ![t] = IF outcome = "success" THEN "loop" ELSE "panicked"]
    /\ current' = [current EXCEPT ![t] = "none"]
    /\ UNCHANGED <<lazy_dirs, pending>>
    /\ UNCHANGED <<reducerVars, transformVars>>

\* call_once on a Once whose closure another caller is running: block.
Wait(t) ==
    /\ pc[t] = "loop"
    /\ \E lazy_dir \in pending[t] :
          /\ has_arm(lazy_dir)
          /\ once[once_of(lazy_dir)] = "Running"
          /\ current' = [current EXCEPT ![t] = lazy_dir]
          /\ pending' = [pending EXCEPT ![t] = @ \ {lazy_dir}]
    /\ pc' = [pc EXCEPT ![t] = "wait"]
    /\ UNCHANGED <<lazy_dirs, once, script_runs>>
    /\ UNCHANGED <<reducerVars, transformVars>>

\* The blocked call_once ends: it returns when the Once is Complete and
\* panics when it is poisoned.
Wake(t) ==
    /\ pc[t] = "wait"
    /\ once[once_of(current[t])] \in {"Complete", "Poisoned"}
    /\ pc' = [pc EXCEPT ![t] =
                 IF once[once_of(current[t])] = "Complete" THEN "loop" ELSE "panicked"]
    /\ current' = [current EXCEPT ![t] = "none"]
    /\ UNCHANGED <<lazy_dirs, pending, once, script_runs>>
    /\ UNCHANGED <<reducerVars, transformVars>>

\* call_once on a poisoned Once panics.
PanicOnPoisoned(t) ==
    /\ pc[t] = "loop"
    /\ \E lazy_dir \in pending[t] :
          /\ has_arm(lazy_dir)
          /\ once[once_of(lazy_dir)] = "Poisoned"
          /\ pending' = [pending EXCEPT ![t] = @ \ {lazy_dir}]
    /\ pc' = [pc EXCEPT ![t] = "panicked"]
    /\ UNCHANGED <<lazy_dirs, current, once, script_runs>>
    /\ UNCHANGED <<reducerVars, transformVars>>

\* The loop is over: Ok(()).
Return(t) ==
    /\ pc[t] = "loop"
    /\ pending[t] = {}
    /\ pc' = [pc EXCEPT ![t] = "returned"]
    /\ UNCHANGED <<lazy_dirs, pending, current, once, script_runs>>
    /\ UNCHANGED <<reducerVars, transformVars>>

NextPrepare ==
    \E t \in Callers :
        \/ Skip(t)
        \/ CallOnce(t)
        \/ RunScript(t)
        \/ Wait(t)
        \/ Wake(t)
        \/ PanicOnPoisoned(t)
        \/ Return(t)

SpecPrepare == InitPrepare /\ [][NextPrepare]_vars


(***************************************************************************)
(* Properties.                                                             *)
(***************************************************************************)
\* The input maps that contain column id.
Contributing(id) == {i \in DOMAIN stats : id \in DOMAIN stats[i]}

RECURSIVE SumOver(_, _)
SumOver(f, S) ==
    IF S = {} THEN 0
    ELSE LET x == CHOOSE y \in S : TRUE
         IN f[x] + SumOver(f, S \ {x})

NullCountSum(id) == SumOver([i \in DOMAIN stats |-> stats[i][id].null_count], Contributing(id))
InMemorySizeSum(id) == SumOver([i \in DOMAIN stats |-> stats[i][id].in_memory_size], Contributing(id))

NonNullMins(id) == {stats[i][id].min : i \in Contributing(id)} \ {Null}
NonNullMaxs(id) == {stats[i][id].max : i \in Contributing(id)} \ {Null}

\* The Statistics merge_statistics is applied to: each block's segment and
\* Statistics::default().
Segments == {segment(i) : i \in 0..Len(block_metas)}

\* C1: merging Statistics::default() with any Statistics x gives x, field by
\* field.
C1_MergeIdentity ==
    (op = "merge_statistics" /\ l = default_statistics) => snapshot = r

\* C2: merge_statistics is commutative: merge_statistics(l, r) equals
\* merge_statistics(r, l) in every field.
C2_MergeCommutative ==
    op = "merge_statistics" => snapshot = merge_statistics(r, l)

\* C3: merge_statistics is associative: merging the result of (l, r) with any
\* c equals merging l with the result of (r, c).
C3_MergeAssociative ==
    op = "merge_statistics" =>
        \A c \in Segments :
            merge_statistics(snapshot, c) = merge_statistics(l, merge_statistics(r, c))

\* C4: for every column id of the result of reduce_block_statistics,
\* null_count and in_memory_size are the sums over the input maps containing
\* that id, each entry counted once.
C4_SumsCountEachEntryOnce ==
    op = "reduce_block_statistics" =>
        \A id \in DOMAIN col_stats :
            /\ col_stats[id].null_count = NullCountSum(id)
            /\ col_stats[id].in_memory_size = InMemorySizeSum(id)

\* C5: when some contributing entry of a column has a non-null min (max), the
\* result's min (max) is the least (greatest) of the non-null contributing
\* values, hence never the null marker.
C5_MinMaxOfNonNull ==
    op = "reduce_block_statistics" =>
        \A id \in DOMAIN col_stats :
            /\ NonNullMins(id) # {} =>
                  /\ col_stats[id].min \in NonNullMins(id)
                  /\ \A v \in NonNullMins(id) : col_stats[id].min <= v
            /\ NonNullMaxs(id) # {} =>
                  /\ col_stats[id].max \in NonNullMaxs(id)
                  /\ \A v \in NonNullMaxs(id) : v <= col_stats[id].max

\* C5 witness: a column reduced from one all-null entry and one entry with
\* values, whose result takes the min and max of the latter.
C5_Witness ==
    /\ op = "reduce_block_statistics"
    /\ \E id \in DOMAIN col_stats :
          /\ Cardinality(Contributing(id)) = 2
          /\ \E i, j \in Contributing(id) :
                /\ is_null(stats[i][id].min) /\ is_null(stats[i][id].max)
                /\ ~is_null(stats[j][id].min) /\ ~is_null(stats[j][id].max)
                /\ col_stats[id].min = stats[j][id].min
                /\ col_stats[id].max = stats[j][id].max

\* C6: when every contributing entry of a column has null min and max, the
\* result has null min and max and null_count equal to the sum of the
\* contributing null counts.
C6_AllNullColumn ==
    op = "reduce_block_statistics" =>
        \A id \in DOMAIN col_stats :
            (NonNullMins(id) = {} /\ NonNullMaxs(id) = {}) =>
                /\ is_null(col_stats[id].min)
                /\ is_null(col_stats[id].max)
                /\ col_stats[id].null_count = NullCountSum(id)

\* C7: the key set of the result of reduce_block_statistics is the union of
\* the key sets of the input maps, and the empty slice gives the empty map.
C7_KeysAreUnion ==
    op = "reduce_block_statistics" =>
        /\ DOMAIN col_stats = UNION {DOMAIN stats[i] : i \in DOMAIN stats}
        /\ stats = <<>> => col_stats = <<>>

\* C7 witness: two input maps with different, non-empty key sets.
C7_Witness ==
    /\ op = "reduce_block_statistics"
    /\ Len(stats) = 2
    /\ DOMAIN stats[1] # {} /\ DOMAIN stats[2] # {}
    /\ DOMAIN stats[1] \ DOMAIN stats[2] # {}
    /\ DOMAIN stats[2] \ DOMAIN stats[1] # {}
    /\ DOMAIN col_stats = ColumnIds

\* C8: reduce_block_statistics of any permutation of the input slice gives
\* the same result.
C8_OrderIndependent ==
    op = "reduce_block_statistics" =>
        \A p \in Permutations(DOMAIN stats) :
            reduce_block_statistics([i \in DOMAIN stats |-> stats[p[i]]]) = col_stats

\* C9: reducing two batches A and B separately and merging the two results
\* equals reduce_block_metas of A ++ B.
C9_HierarchicalEqualsDirect ==
    op = "reduce_then_merge" => snapshot = reduce_block_metas(block_metas)

\* C10: reduce_statistics of [a, b, c] equals
\* merge_statistics(merge_statistics(identity, a), merge_statistics(b, c)).
C10_FoldEqualsPairwise ==
    (op = "reduce_statistics" /\ Len(segments) = 3) =>
        snapshot = merge_statistics(merge_statistics(default_statistics, segments[1]),
                                    merge_statistics(segments[2], segments[3]))

\* C11: reduce_statistics of any permutation of its input slice gives the
\* same Statistics.
C11_FoldOrderIndependent ==
    op = "reduce_statistics" =>
        \A p \in Permutations(DOMAIN segments) :
            reduce_statistics([i \in DOMAIN segments |-> segments[p[i]]]) = snapshot

\* C12: reduce_statistics of the empty slice returns the identity: the four
\* counters 0, col_stats empty, sub_col_stats absent.
C12_FoldOfEmpty ==
    (op = "reduce_statistics" /\ segments = <<>>) =>
        /\ snapshot.row_count = 0
        /\ snapshot.block_count = 0
        /\ snapshot.uncompressed_byte_size = 0
        /\ snapshot.compressed_byte_size = 0
        /\ DOMAIN snapshot.col_stats = {}
        /\ ~is_some(snapshot.sub_col_stats)

\* C12 witness: reduce_statistics has run on the empty slice.
C12_Witness ==
    /\ op = "reduce_statistics"
    /\ segments = <<>>
    /\ snapshot.block_count = 0

\* The states whose snapshot is merge_statistics(l, r).
Merged == op \in {"merge_statistics", "reduce_then_merge"}

\* C13: the sub_col_stats of merge_statistics(l, r) is absent exactly when it
\* is absent in both l and r, and when exactly one side has it the result is
\* that side's map unchanged.
C13_SubStatsAbsencePropagation ==
    Merged =>
        /\ ~is_some(snapshot.sub_col_stats) <=>
              (~is_some(l.sub_col_stats) /\ ~is_some(r.sub_col_stats))
        /\ (is_some(l.sub_col_stats) /\ ~is_some(r.sub_col_stats)) =>
              snapshot.sub_col_stats = l.sub_col_stats
        /\ (~is_some(l.sub_col_stats) /\ is_some(r.sub_col_stats)) =>
              snapshot.sub_col_stats = r.sub_col_stats

\* C13 witness: a merge whose left side has no sub_col_stats and whose right
\* side has a map with an entry, passed through.
C13_Witness ==
    /\ op = "merge_statistics"
    /\ ~is_some(l.sub_col_stats)
    /\ is_some(r.sub_col_stats)
    /\ DOMAIN unwrap(r.sub_col_stats) # {}
    /\ snapshot.sub_col_stats = r.sub_col_stats

\* C14: each of the four counters of merge_statistics(l, r) is the sum of
\* that counter of l and of r.
C14_CountersAreSums ==
    Merged =>
        /\ snapshot.row_count = l.row_count + r.row_count
        /\ snapshot.block_count = l.block_count + r.block_count
        /\ snapshot.uncompressed_byte_size =
              l.uncompressed_byte_size + r.uncompressed_byte_size
        /\ snapshot.compressed_byte_size =
              l.compressed_byte_size + r.compressed_byte_size

\* C14 witness: a merge of two Statistics that both have rows.
C14_Witness ==
    /\ op = "merge_statistics"
    /\ l.row_count > 0 /\ r.row_count > 0
    /\ snapshot.row_count = l.row_count + r.row_count
    /\ snapshot.compressed_byte_size < snapshot.uncompressed_byte_size

\* C15: reduce_block_metas returns the sum of the blocks' row_count, the
\* number of blocks, the sum of block_size and the sum of file_size.
C15_BlockMetaCounters ==
    op = "reduce_block_metas" =>
        /\ snapshot.row_count =
              SumOver([i \in DOMAIN block_metas |-> block_metas[i].row_count], DOMAIN block_metas)
        /\ snapshot.block_count = Len(block_metas)
        /\ snapshot.uncompressed_byte_size =
              SumOver([i \in DOMAIN block_metas |-> block_metas[i].block_size], DOMAIN block_metas)
        /\ snapshot.compressed_byte_size =
              SumOver([i \in DOMAIN block_metas |-> block_metas[i].file_size], DOMAIN block_metas)

\* C15 witness: reduce_block_metas has run on two blocks.
C15_Witness ==
    /\ op = "reduce_block_metas"
    /\ Len(block_metas) = 2
    /\ snapshot.block_count = 2
    /\ snapshot.row_count >= 2

\* The blocks' col_stats have pairwise disjoint column ids.
DisjointColumnIds ==
    \A i, j \in DOMAIN block_metas :
        i # j => DOMAIN block_metas[i].col_stats \cap DOMAIN block_metas[j].col_stats = {}

\* C16: reduce_block_metas of blocks with pairwise disjoint column ids gives
\* as col_stats the union of the blocks' entries, each entry unchanged.
C16_DisjointColumnsUnchanged ==
    (op = "reduce_block_metas" /\ DisjointColumnIds) =>
        /\ DOMAIN snapshot.col_stats =
              UNION {DOMAIN block_metas[i].col_stats : i \in DOMAIN block_metas}
        /\ \A i \in DOMAIN block_metas :
              \A id \in DOMAIN block_metas[i].col_stats :
                  snapshot.col_stats[id] = block_metas[i].col_stats[id]

\* The present sub_col_stats maps of the blocks, and those that contain a key.
PresentBlocks == {i \in DOMAIN block_metas : is_some(block_metas[i].sub_col_stats)}
BlocksWithKey(k) == {i \in PresentBlocks : k \in DOMAIN unwrap(block_metas[i].sub_col_stats)}

\* C17: reduce_block_metas returns absent sub_col_stats exactly when no block
\* has sub_col_stats; otherwise the reduction of the present maps, in which
\* each key's unset_bits and in_memory_size are the sums over the blocks that
\* contain the key.
C17_SubStatsOfBlockMetas ==
    op = "reduce_block_metas" =>
        /\ ~is_some(snapshot.sub_col_stats) <=> PresentBlocks = {}
        /\ is_some(snapshot.sub_col_stats) =>
              LET m == unwrap(snapshot.sub_col_stats)
              IN /\ m = reduce_block_sub_statistics(present_sub_stats(block_metas))
                 /\ DOMAIN m = UNION {DOMAIN unwrap(block_metas[i].sub_col_stats) : i \in PresentBlocks}
                 /\ \A k \in DOMAIN m :
                       /\ m[k].unset_bits =
                             SumOver([i \in PresentBlocks |-> unwrap(block_metas[i].sub_col_stats)[k].unset_bits],
                                     BlocksWithKey(k))
                       /\ m[k].in_memory_size =
                             SumOver([i \in PresentBlocks |-> unwrap(block_metas[i].sub_col_stats)[k].in_memory_size],
                                     BlocksWithKey(k))

\* C18: reduce_block_sub_statistics on the maps of stats keyed by string
\* (null_count as unset_bits) returns what reduce_block_statistics returns on
\* stats, under the same renaming: same keys, min, max, counter and size.
C18_SubReducerAgrees ==
    op = "reduce_block_sub_statistics" =>
        sub_col_stats = as_sub_columns(reduce_block_statistics(stats))

\* C18 witness: both reducers have something to select and to sum: a key with
\* an all-null entry and an entry with values, in a result of two keys.
C18_Witness ==
    /\ op = "reduce_block_sub_statistics"
    /\ Len(stats) = 2
    /\ DOMAIN sub_col_stats = {ToString(id) : id \in ColumnIds}
    /\ \E id \in DOMAIN stats[1] \cap DOMAIN stats[2] :
          /\ is_null(stats[1][id].min)
          /\ ~is_null(stats[2][id].min)
          /\ sub_col_stats[ToString(id)].min = stats[2][id].min
          /\ sub_col_stats[ToString(id)].unset_bits > 0

\* A column whose null_count is the row_count has null min and max.
AllNullHasNullMinMax(s) ==
    \A id \in DOMAIN s.col_stats :
        s.col_stats[id].null_count = s.row_count =>
            (is_null(s.col_stats[id].min) /\ is_null(s.col_stats[id].max))

\* C19: if in every input Statistics a column whose null_count equals the
\* row_count has null min and max, the same holds of the output of
\* merge_statistics and of reduce_statistics.
C19_AllNullInvariantPreserved ==
    /\ (Merged /\ AllNullHasNullMinMax(l) /\ AllNullHasNullMinMax(r)) =>
          AllNullHasNullMinMax(snapshot)
    /\ (op = "reduce_statistics" /\ \A i \in DOMAIN segments : AllNullHasNullMinMax(segments[i])) =>
          AllNullHasNullMinMax(snapshot)

\* An Option of a map that is present and empty.
IsPresentEmpty(o) == is_some(o) /\ DOMAIN unwrap(o) = {}

\* C20: merge_statistics and reduce_block_metas keep absent and present-empty
\* sub_col_stats apart: the result is present exactly when some input's is,
\* and when every present input is an empty map the result is a present
\* empty map (so an empty map merged with absent stays a present empty map).
C20_TriStatePreserved ==
    /\ Merged =>
          /\ is_some(snapshot.sub_col_stats) <=>
                (is_some(l.sub_col_stats) \/ is_some(r.sub_col_stats))
          /\ (\/ IsPresentEmpty(l.sub_col_stats) /\ ~is_some(r.sub_col_stats)
              \/ ~is_some(l.sub_col_stats) /\ IsPresentEmpty(r.sub_col_stats)
              \/ IsPresentEmpty(l.sub_col_stats) /\ IsPresentEmpty(r.sub_col_stats)) =>
                IsPresentEmpty(snapshot.sub_col_stats)
    /\ op = "reduce_block_metas" =>
          /\ is_some(snapshot.sub_col_stats) <=> PresentBlocks # {}
          /\ (PresentBlocks # {} /\
              \A i \in PresentBlocks : IsPresentEmpty(block_metas[i].sub_col_stats)) =>
                IsPresentEmpty(snapshot.sub_col_stats)

\* C20 witness: an absent sub_col_stats merged with a present empty map,
\* giving a present empty map.
C20_Witness ==
    /\ op = "merge_statistics"
    /\ l.block_count > 0
    /\ ~is_some(l.sub_col_stats)
    /\ IsPresentEmpty(r.sub_col_stats)
    /\ IsPresentEmpty(snapshot.sub_col_stats)

\* The column ids of the maps of stats, and of the blocks.
StatsColumnIds == UNION {DOMAIN stats[i] : i \in DOMAIN stats}
BlockMetaColumnIds == UNION {DOMAIN block_metas[i].col_stats : i \in DOMAIN block_metas}

\* A complete map of column statistics over the column ids `ids`: an entry
\* with a min, a max and the two sums for every id, and no other entry.
CompleteColumns(m, ids, counter) ==
    /\ DOMAIN m = ids
    /\ \A id \in ids :
          /\ DOMAIN m[id] = {"min", "max", counter, "in_memory_size"}
          /\ m[id].min \in {Null} \cup Values
          /\ m[id].max \in {Null} \cup Values

\* A complete Statistics: the four counters, a complete col_stats over `ids`
\* and a sub_col_stats that is absent or a complete map.
CompleteStatistics(s, ids) ==
    /\ DOMAIN s = {"row_count", "block_count", "uncompressed_byte_size",
                   "compressed_byte_size", "col_stats", "sub_col_stats"}
    /\ {s.row_count, s.block_count, s.uncompressed_byte_size, s.compressed_byte_size} \subseteq Nat
    /\ CompleteColumns(s.col_stats, ids, "null_count")
    /\ is_some(s.sub_col_stats) =>
          CompleteColumns(unwrap(s.sub_col_stats), DOMAIN unwrap(s.sub_col_stats), "unset_bits")

\* C21: each of the five reduction functions returns Ok with a complete
\* result on every input: on the empty slice (the empty map, or the
\* Statistics with zero counters and no column), on ragged inputs where a
\* column id occurs in only some of the maps, and on columns whose min and
\* max are all Null.
C21_ReducersAreTotal ==
    /\ op # "none" => result = "Ok"
    /\ op = "reduce_block_statistics" =>
          /\ CompleteColumns(col_stats, StatsColumnIds, "null_count")
          /\ stats = <<>> => col_stats = <<>>
    /\ op = "reduce_block_sub_statistics" =>
          /\ CompleteColumns(sub_col_stats, {ToString(id) : id \in StatsColumnIds}, "unset_bits")
          /\ stats = <<>> => sub_col_stats = <<>>
    /\ op = "reduce_block_metas" =>
          /\ CompleteStatistics(snapshot, BlockMetaColumnIds)
          /\ block_metas = <<>> => snapshot = default_statistics
    /\ op \in {"merge_statistics", "reduce_then_merge"} =>
          CompleteStatistics(snapshot, DOMAIN l.col_stats \cup DOMAIN r.col_stats)
    /\ op = "reduce_statistics" =>
          /\ CompleteStatistics(snapshot, UNION {DOMAIN segments[i].col_stats : i \in DOMAIN segments})
          /\ segments = <<>> => snapshot = default_statistics

\* C21 witness: reduce_block_statistics has returned Ok on a ragged slice in
\* which one column is in both maps and all null, and the other column is in
\* one map only.
C21_Witness ==
    /\ op = "reduce_block_statistics"
    /\ result = "Ok"
    /\ Len(stats) = 2
    /\ DOMAIN stats[1] = {1, 2}
    /\ DOMAIN stats[2] = {1}
    /\ is_null(stats[1][1].min) /\ is_null(stats[2][1].min)
    /\ is_null(col_stats[1].min) /\ is_null(col_stats[1].max)
    /\ 2 \in DOMAIN col_stats

\* C21 witness of the empty inputs: reduce_block_metas has returned Ok on the
\* empty slice.
C21_WitnessEmpty ==
    /\ op = "reduce_block_metas"
    /\ block_metas = <<>>
    /\ result = "Ok"
    /\ snapshot = default_statistics

\* Every column's null_count is at most the row_count of the Statistics.
NullCountAtMostRowCount(s) ==
    \A id \in DOMAIN s.col_stats : s.col_stats[id].null_count <= s.row_count

\* C22: in the Statistics obtained by reduce_block_metas from blocks whose
\* columns' null_count is at most the block's row_count, and by
\* merge_statistics or reduce_statistics of such Statistics in any grouping,
\* every column's null_count is at most the row_count.
C22_NullCountAtMostRowCount ==
    (/\ op \in {"reduce_block_metas", "merge_statistics", "reduce_statistics",
                "reduce_then_merge"}
     /\ \A i \in DOMAIN block_metas :
           \A id \in DOMAIN block_metas[i].col_stats :
               block_metas[i].col_stats[id].null_count <= block_metas[i].row_count) =>
        NullCountAtMostRowCount(snapshot)

\* The output fields try_create cannot build: absent from the input schema
\* and not a stored computed column.
MissedFields ==
    {i \in DOMAIN output_schema :
        /\ ~has_field(input_schema, output_schema[i].name)
        /\ ~(/\ is_some(output_schema[i].computed_expr)
             /\ unwrap(output_schema[i].computed_expr).kind = "Stored")}

\* The output fields whose stored expression try_create parses.
ParsedFields ==
    {i \in DOMAIN output_schema :
        /\ ~has_field(input_schema, output_schema[i].name)
        /\ is_some(output_schema[i].computed_expr)
        /\ unwrap(output_schema[i].computed_expr).kind = "Stored"}

\* try_create returned Ok of a processor whose Map operator has one
\* expression per output field, in the order of the output schema: a column
\* reference for a field of the input schema, the parsed stored expression
\* (cast when its type is not the field's) for the others.
BuiltInOrder ==
    /\ is_ok(unwrap(created))
    /\ LET exprs == unwrap(created)[2].expression_transform.operators[1].exprs
       IN /\ Len(exprs) = Len(output_schema)
          /\ \A i \in DOMAIN output_schema :
                IF has_field(input_schema, output_schema[i].name)
                THEN /\ exprs[i].kind = "ColumnRef"
                     /\ exprs[i].display_name = output_schema[i].name
                     /\ input_schema[exprs[i].id + 1].name = output_schema[i].name
                ELSE IF exprs[i].kind = "Cast"
                THEN /\ exprs[i].dest_type = output_schema[i].data_type
                     /\ exprs[i].expr.kind = "Parsed"
                     /\ exprs[i].expr.text = unwrap(output_schema[i].computed_expr).text
                     /\ exprs[i].expr.data_type # output_schema[i].data_type
                ELSE /\ exprs[i].kind = "Parsed"
                     /\ exprs[i].text = unwrap(output_schema[i].computed_expr).text
                     /\ exprs[i].data_type = output_schema[i].data_type

\* C23 as stated: try_create fails with an Internal error whenever some
\* output field is absent from the input schema and not a stored computed
\* column, and otherwise builds one expression per output field in order.
C23_TryCreateAsStated ==
    is_some(created) =>
        IF MissedFields # {}
        THEN unwrap(created) = Err("Internal")
        ELSE BuiltInOrder

\* C23 amended: try_create returns an error and no processor whenever some
\* output field is absent from the input schema and not a stored computed
\* column, and the error is Internal unless the parse of a stored computed
\* column that precedes the first such field failed; when every output field
\* is in the input schema or a stored computed column, and the parses of the
\* stored expressions and get_function_context succeed, it builds one
\* expression per output field in output-schema order; when one of these
\* calls fails it returns that call's error.
C23_TryCreate ==
    is_some(created) =>
        LET parse_fails == is_some(ctx.parse_error)
            first_missed == CHOOSE i \in MissedFields : \A j \in MissedFields : i <= j
        IN IF MissedFields # {}
           THEN /\ ~is_ok(unwrap(created))
                /\ (~parse_fails \/ \A i \in ParsedFields : i > first_missed) =>
                      unwrap(created) = Err("Internal")
           ELSE IF parse_fails /\ ParsedFields # {}
           THEN unwrap(created) = Err(unwrap(ctx.parse_error))
           ELSE IF is_some(ctx.function_context_error)
           THEN unwrap(created) = Err(unwrap(ctx.function_context_error))
           ELSE BuiltInOrder

\* C23 witness: both cases have happened in one run each; this is the first,
\* a missed virtual computed column after a field of the input schema and a
\* parsed stored column, ending in the Internal error.
C23_Witness ==
    /\ is_some(created)
    /\ Len(output_schema) = 2
    /\ has_field(input_schema, output_schema[1].name)
    /\ MissedFields = {2}
    /\ is_some(output_schema[2].computed_expr)
    /\ unwrap(created) = Err("Internal")

\* The second case: a processor built from a column reference and a cast
\* stored expression, in that order.
C23_WitnessBuilt ==
    /\ is_some(created)
    /\ Len(output_schema) = 2
    /\ MissedFields = {}
    /\ BuiltInOrder
    /\ unwrap(created)[2].expression_transform.operators[1].exprs[1].kind = "ColumnRef"
    /\ unwrap(created)[2].expression_transform.operators[1].exprs[2].kind = "Cast"

\* C24: over any interleaving of lazy_prepare_data calls, each preparation
\* script is run at most once.
C24_EachScriptRunsAtMostOnce ==
    \A s \in Scripts : script_runs[s] <= 1
====
